---- MODULE Spec2Model ----
(***************************************************************************)
(* A model of src/mealplan_generator.py: the manual planner                *)
(* (build_week_plan_manual), the simple pool expansion (expand_pool), the  *)
(* automatic planner (build_auto_week_plan with generate_week_slots,       *)
(* card_supports_slot and choose_main_for_slot) and the grocery            *)
(* aggregation (aggregate_grocery).                                        *)
(*                                                                         *)
(* Numbers: calories and macros are the cards' floats, whole numbers in    *)
(* every card of the catalogue.  Ingredient quantities are counted in      *)
(* units of 1/QDen, so that every quantity the catalogue produces (a raw   *)
(* quantity times used_servings / servings_default) is a whole number of   *)
(* units and the float arithmetic of the source is exact on them.          *)
(* Strings that the source normalises or sorts (item, unit, grocery        *)
(* section) are sequences of one-character strings.                        *)
(***************************************************************************)
EXTENDS Integers, Sequences, FiniteSets, TLC

VARIABLES
    mode,           \* which entry point runs: "manual", "simple", "auto", "grocery"
    cards,          \* the repository: card ids in dict insertion order
    selection,      \* manual selection: sequence of [id, n] in dict order
    targets,        \* the Targets record of the run
    seed,           \* the seed given to random.Random
    pc,             \* position of the run
    rnd,            \* state of the run's generator
    main_pool, side_pool, side_idx,             \* build_week_plan_manual locals
    i,              \* loop index (slot number / index into week_slots)
    day,            \* build_week_plan_manual's day counter
    slots,          \* the plan being built
    week_slots, chosen_mains, chosen_sides, snacks_all, day_totals,   \* auto locals
    pool,           \* expand_pool's result
    error,          \* "" or the exception that ended the run
    grocery,        \* aggregate_grocery's rows
    run, variant, first   \* second run of the same inputs, and the first run's outcome

vars == <<mode, cards, selection, targets, seed, pc, rnd, main_pool, side_pool,
          side_idx, i, day, slots, week_slots, chosen_mains, chosen_sides,
          snacks_all, day_totals, pool, error, grocery, run, variant, first>>

----------------------------------------------------------------------------
(* Bounds of the model *)

MaxSeed == 2
MaxSel == 2
MaxRequest == 2
MaxPlanLen == 2

(* Program constants *)

TotalSlots == 14
WeekDays == 7
MaxComponents == 3
MealBandLow == 450
MealCalMax == 800
QDen == 80

----------------------------------------------------------------------------
(* Generic helpers *)

Min(a, b) == IF a <= b THEN a ELSE b
Max(a, b) == IF a >= b THEN a ELSE b

Repeat(x, n) == [k \in 1..n |-> x]

RECURSIVE SeqSum(_)
SeqSum(s) == IF s = <<>> THEN 0 ELSE Head(s) + SeqSum(Tail(s))

Range(s) == {s[k] : k \in DOMAIN s}

Count(s, x) == Cardinality({k \in DOMAIN s : s[k] = x})

\* the element of a one-element set: names a value computed once
Only(S) == CHOOSE v \in S : TRUE

Swap(s, a, b) == [s EXCEPT ![a] = s[b], ![b] = s[a]]

----------------------------------------------------------------------------
(* Character strings: item names, units and grocery sections *)

Uppers == <<"A","B","C","D","E","F","G","H","I","J","K","L","M",
            "N","O","P","Q","R","S","T","U","V","W","X","Y","Z">>
Lowers == <<"a","b","c","d","e","f","g","h","i","j","k","l","m",
            "n","o","p","q","r","s","t","u","v","w","x","y","z">>

\* str.lower() on one character
LowerChar(c) ==
    IF \E k \in DOMAIN Uppers : Uppers[k] = c
    THEN Lowers[CHOOSE k \in DOMAIN Uppers : Uppers[k] = c]
    ELSE c

StrLower(s) == [k \in DOMAIN s |-> LowerChar(s[k])]

RECURSIVE LStrip(_)
LStrip(s) == IF s # <<>> /\ Head(s) = " " THEN LStrip(Tail(s)) ELSE s

RECURSIVE RStrip(_)
RStrip(s) ==
    IF s # <<>> /\ s[Len(s)] = " " THEN RStrip(SubSeq(s, 1, Len(s) - 1)) ELSE s

\* str.strip()
StrStrip(s) == RStrip(LStrip(s))

\* code point order of the characters in use: space < upper case < lower case
CharOrd(c) ==
    IF c = " " THEN 0
    ELSE IF \E k \in DOMAIN Uppers : Uppers[k] = c
         THEN CHOOSE k \in DOMAIN Uppers : Uppers[k] = c
         ELSE 100 + (CHOOSE k \in DOMAIN Lowers : Lowers[k] = c)

\* Python's str comparison a < b
RECURSIVE StrLess(_, _)
StrLess(a, b) ==
    IF b = <<>> THEN FALSE
    ELSE IF a = <<>> THEN TRUE
    ELSE IF Head(a) # Head(b) THEN CharOrd(Head(a)) < CharOrd(Head(b))
    ELSE StrLess(Tail(a), Tail(b))

U_g == <<"g">>
U_oz == <<"o","z">>
U_tbsp == <<"t","b","s","p">>
U_tsp == <<"t","s","p">>
U_cup == <<"c","u","p">>
U_cups == <<"c","u","p","s">>
U_whole == <<"w","h","o","l","e">>

S_pantry == <<"p","a","n","t","r","y">>
S_produce == <<"p","r","o","d","u","c","e">>
S_protein == <<"p","r","o","t","e","i","n">>
S_dairy == <<"d","a","i","r","y">>

Ing(item, qty, unit, section) ==
    [item |-> item, qty |-> qty, unit |-> unit, grocery_section |-> section]

----------------------------------------------------------------------------
(* The card catalogue.  Quantities are in units of 1/QDen:                  *)
(* 16000 = 200, 640 = 8, 120 = 1.5, 80 = 1, 1000 = 12.5, 20 = 0.25.         *)

CardIds == {"A", "B", "C", "D", "E", "F", "G"}

Mk(role, cal, p, c, f, sd, cap, batch, mslots, ings) ==
    [role |-> role, calories |-> cal, protein_g |-> p, carbs_g |-> c, fat_g |-> f,
     servings_default |-> sd, meal_freq_cap_per_week |-> cap, batch_friendly |-> batch,
     meal_slots |-> mslots, ingredients |-> ings]

CardDefs ==
    ("A" :> Mk("main", 500, 40, 50, 15, 2, 7, TRUE, <<>>,
               << Ing(<<"R","i","c","e"," ">>, 16000, U_g, S_pantry),
                  Ing(<<"C","h","i","c","k","e","n">>, 640, U_oz, S_protein) >>))
 @@ ("B" :> Mk("side", 150, 5, 20, 5, 4, 7, TRUE, <<>>,
               << Ing(<<"b","r","o","c","c","o","l","i">>, 120, U_cups, S_produce),
                  Ing(<<"O","i","l">>, 80, U_tbsp, S_pantry) >>))
 @@ ("C" :> Mk("both", 300, 20, 30, 10, 2, 2, TRUE, <<"Lunch", "Dinner">>,
               << Ing(<<"c","h","i","c","k","e","n">>, 8000, U_g, S_dairy),
                  Ing(<<"e","g","g">>, 160, U_whole, S_dairy) >>))
 @@ ("D" :> Mk("main", 900, 60, 80, 30, 1, 1, TRUE, <<>>,
               << Ing(<<"o","i","l">>, 20, U_cup, S_produce),
                  Ing(<<"r","i","c","e">>, 1000, U_g, S_pantry) >>))
 @@ ("E" :> Mk("side", 100, 3, 10, 5, 1, 3, TRUE, <<"Snack">>,
               << Ing(<<"s","a","l","t">>, 80, U_tsp, S_pantry),
                  Ing(<<"S","a","l","t">>, 40, U_tsp, S_pantry) >>))
 @@ ("F" :> Mk("main", 300, 25, 30, 8, 2, 3, TRUE, <<"breakfast", "snack">>,
               << Ing(<<"m","i","l","k">>, 80, U_cup, S_dairy),
                  Ing(<<"m","i","l","k">>, 160, U_tbsp, S_dairy) >>))
 @@ ("G" :> Mk("side", 250, 10, 30, 10, 1, 2, FALSE, <<>>,
               << Ing(<<"e","g","g">>, 80, U_whole, S_dairy),
                  Ing(<<"f","l","o","u","r">>, 8000, U_g, S_pantry),
                  Ing(<<"F","l","o","u","r"," ">>, 80, U_oz, S_produce) >>))

Card(cid) == CardDefs[cid]

InCards(cid) == \E k \in DOMAIN cards : cards[k] = cid

\* the macros of a list of card ids, summed with one serving each
CalOf(ids) == SeqSum([k \in DOMAIN ids |-> Card(ids[k]).calories])
ProtOf(ids) == SeqSum([k \in DOMAIN ids |-> Card(ids[k]).protein_g])
CarbOf(ids) == SeqSum([k \in DOMAIN ids |-> Card(ids[k]).carbs_g])
FatOf(ids) == SeqSum([k \in DOMAIN ids |-> Card(ids[k]).fat_g])

MealSlot(d, name, ids, cal, p, c, f) ==
    [day |-> d, slot |-> name, card_ids |-> ids,
     calories |-> cal, protein_g |-> p, carbs_g |-> c, fat_g |-> f]

----------------------------------------------------------------------------
(* random.Random: one generator per run, seeded once.  The generator is a   *)
(* small congruential stand-in for the Mersenne Twister; shuffle, sample,   *)
(* randint and choice are built on randbelow as in CPython's random.py.     *)

\* faulty variant: the generator is shared between runs and not reseeded
RandSeedGlobal(s) == rnd
RandSeed(s) == (s * 389 + 17) % 1009

RandNext(r) == (r * 37 + 11) % 1009

RandBelow(r, n) == (RandNext(r) \div 4) % n

\* shuffle: for i in reversed(range(1, len(x))): j = randbelow(i + 1); swap
RECURSIVE ShuffleFrom(_, _, _)
ShuffleFrom(x, k, r) ==
    IF k < 2 THEN [seq |-> x, rnd |-> r]
    ELSE Only({ ShuffleFrom(y, k - 1, q) : y \in {Swap(x, k, RandBelow(r, k) + 1)},
                                             q \in {RandNext(r)} })

Shuffle(x, r) == ShuffleFrom(x, Len(x), r)

\* sample: result[i] = pool[j]; pool[j] = pool[n - i - 1]
RECURSIVE SampleFrom(_, _, _, _)
SampleFrom(p, k, res, r) ==
    IF k = 0 THEN [seq |-> res, rnd |-> r]
    ELSE LET n == Len(p)
             j == RandBelow(r, n) + 1
         IN SampleFrom(SubSeq([p EXCEPT ![j] = p[n]], 1, n - 1), k - 1,
                       Append(res, p[j]), RandNext(r))

Sample(population, k, r) == SampleFrom(population, k, <<>>, r)

\* randint(a, b), a <= b
RandInt(a, b, r) == [val |-> a + RandBelow(r, b - a + 1), rnd |-> RandNext(r)]

\* choice(seq), seq non-empty
Choice(s, r) == [val |-> s[RandBelow(r, Len(s)) + 1], rnd |-> RandNext(r)]

----------------------------------------------------------------------------
(* Inputs *)

\* Targets(): the dataclass defaults; 0 stands for an absent (None) unique count
DefaultTargets ==
    [calories_min |-> 1400, calories_max |-> 1600,
     min_unique_main_meals |-> 0, max_unique_main_meals |-> 0,
     meal_slots |-> <<"Lunch", "Dinner">>, meals_per_day |-> 2,
     include_snacks |-> FALSE, max_snacks_per_day |-> 0]

\* ids a manual selection may name, in the order the selection lists them;
\* "Z" is in no repository, "C" and "D" are not in the repository <<"A", "B">>
SelIds == <<"Z", "A", "B", "C", "D">>

Requests == (0..MaxRequest) \cup {7}

SelIndex(cid) == CHOOSE k \in DOMAIN SelIds : SelIds[k] = cid

Selections ==
    { sel \in UNION { [1..k -> [id : Range(SelIds), n : Requests]] : k \in 1..MaxSel } :
        \A a, b \in DOMAIN sel : a < b => SelIndex(sel[a].id) < SelIndex(sel[b].id) }

Seeds == 0..MaxSeed

FullRepo == <<"A", "B", "C", "D", "E", "F", "G">>

----------------------------------------------------------------------------
(* expand_pool *)

RECURSIVE ExpandFrom(_, _, _)
ExpandFrom(sel, k, acc) ==
    IF k > Len(sel) THEN [error |-> "", pool |-> acc]
    ELSE IF ~InCards(sel[k].id) THEN [error |-> "KeyError", pool |-> <<>>]
    ELSE LET cap == Card(sel[k].id).meal_freq_cap_per_week
             n == IF sel[k].n > cap THEN cap ELSE sel[k].n
         IN ExpandFrom(sel, k + 1, acc \o Repeat(sel[k].id, n))

expand_pool(sel) == ExpandFrom(sel, 1, <<>>)

ExpandPool ==
    /\ mode = "simple" /\ pc = "start"
    /\ LET r == expand_pool(selection)
       IN /\ error' = r.error
          /\ pool' = r.pool
          /\ pc' = IF r.error = "" THEN "done" ELSE "error"
    /\ UNCHANGED <<mode, cards, selection, targets, seed, rnd, main_pool, side_pool,
                   side_idx, i, day, slots, week_slots, chosen_mains, chosen_sides,
                   snacks_all, day_totals, grocery, run, variant, first>>

----------------------------------------------------------------------------
(* build_week_plan_manual *)

\* how often a selected card enters the pools: min(requested, cap)
ManualUse(requested, cap) == Min(requested, cap)

\* faulty variant: a side counts as a main
MainRoleAny(role) == role \in {"main", "both", "side"}
MainRole(role) == role \in {"main", "both"}
SideRole(role) == role \in {"side", "both"}

\* the loop over selection.items(): unknown ids and uses <= 0 are skipped
RECURSIVE PoolsFrom(_, _, _, _)
\* faulty variant: an unknown id ends the loop (break for continue)
PoolsFromBreak(sel, k, mp, sp) ==
    IF k > Len(sel) \/ ~InCards(sel[k].id) THEN [main_pool |-> mp, side_pool |-> sp]
    ELSE LET cid == sel[k].id
             use == Min(sel[k].n, Card(cid).meal_freq_cap_per_week)
         IN IF use <= 0 THEN PoolsFrom(sel, k + 1, mp, sp)
            ELSE PoolsFrom(sel, k + 1,
                    IF Card(cid).role \in {"main", "both"} THEN mp \o Repeat(cid, use) ELSE mp,
                    IF Card(cid).role \in {"side", "both"} THEN sp \o Repeat(cid, use) ELSE sp)

PoolsFrom(sel, k, mp, sp) ==
    IF k > Len(sel) THEN [main_pool |-> mp, side_pool |-> sp]
    ELSE IF ~InCards(sel[k].id) THEN PoolsFrom(sel, k + 1, mp, sp)
    ELSE LET cid == sel[k].id
             use == ManualUse(sel[k].n, Card(cid).meal_freq_cap_per_week)
         IN IF use <= 0 THEN PoolsFrom(sel, k + 1, mp, sp)
            ELSE PoolsFrom(sel, k + 1,
                    IF MainRole(Card(cid).role) THEN mp \o Repeat(cid, use) ELSE mp,
                    IF SideRole(Card(cid).role) THEN sp \o Repeat(cid, use) ELSE sp)

ManualPools ==
    /\ mode = "manual" /\ pc = "start"
    /\ rnd' = RandSeed(seed)
    /\ LET p == PoolsFrom(selection, 1, <<>>, <<>>)
       IN /\ main_pool' = p.main_pool
          /\ side_pool' = p.side_pool
          /\ IF p.main_pool = <<>>
             THEN pc' = "error" /\ error' = "ValueError"
             ELSE pc' = "shuffle" /\ error' = ""
    /\ UNCHANGED <<mode, cards, selection, targets, seed, side_idx, i, day, slots,
                   week_slots, chosen_mains, chosen_sides, snacks_all, day_totals,
                   pool, grocery, run, variant, first>>

ManualShuffle ==
    /\ mode = "manual" /\ pc = "shuffle"
    /\ \E m \in {Shuffle(main_pool, rnd)} : \E s \in {Shuffle(side_pool, m.rnd)} :
          /\ main_pool' = m.seq
          /\ side_pool' = s.seq
          /\ rnd' = s.rnd
    /\ slots' = <<>> /\ day' = 0 /\ side_idx' = 0 /\ i' = 0
    /\ pc' = "loop"
    /\ UNCHANGED <<mode, cards, selection, targets, seed, week_slots, chosen_mains,
                   chosen_sides, snacks_all, day_totals, pool, error, grocery,
                   run, variant, first>>

\* faulty variant: the else branch accepts without the 800 kcal test
ManualAcceptUncapped(cal, new_cal) ==
    IF cal < MealBandLow THEN new_cal <= MealCalMax ELSE TRUE

\* the acceptance test of a side in manual mode: both branches of
\* "if cal < 450" test new_cal <= 800
ManualAccept(cal, new_cal) ==
    IF cal < MealBandLow THEN new_cal <= MealCalMax ELSE new_cal <= MealCalMax

\* faulty variant: a third side is allowed
ManualContinueFour(st, sp) ==
    st.attempts < Len(sp) /\ Len(st.comp_ids) < MaxComponents + 1

\* while attempts < side_len and len(comp_ids) < 3
ManualContinue(st, sp) == st.attempts < Len(sp) /\ Len(st.comp_ids) < MaxComponents

\* the while loop attaching sides to one slot
RECURSIVE ManualSides(_, _)
\* faulty variant: the cursor skips a side after each side examined
ManualSidesSkipping(st, sp) ==
    IF ~ManualContinue(st, sp) THEN st
    ELSE LET sid == sp[(st.side_idx % Len(sp)) + 1]
             side == Card(sid)
             new_cal == st.cal + side.calories
             nxt == [st EXCEPT !.side_idx = @ + 2, !.attempts = @ + 1]
         IN IF ManualAccept(st.cal, new_cal)
            THEN ManualSides([nxt EXCEPT !.comp_ids = Append(@, sid),
                                         !.cal = new_cal,
                                         !.p = @ + side.protein_g,
                                         !.carbs = @ + side.carbs_g,
                                         !.fat = @ + side.fat_g], sp)
            ELSE ManualSides(nxt, sp)

ManualSides(st, sp) ==
    IF ~ManualContinue(st, sp) THEN st
    ELSE LET sid == sp[(st.side_idx % Len(sp)) + 1]
             side == Card(sid)
             new_cal == st.cal + side.calories
             nxt == [st EXCEPT !.side_idx = @ + 1, !.attempts = @ + 1]
         IN IF ManualAccept(st.cal, new_cal)
            THEN ManualSides([nxt EXCEPT !.comp_ids = Append(@, sid),
                                         !.cal = new_cal,
                                         !.p = @ + side.protein_g,
                                         !.carbs = @ + side.carbs_g,
                                         !.fat = @ + side.fat_g], sp)
            ELSE ManualSides(nxt, sp)

\* faulty variant: the index is clamped to the pool instead of wrapped
ManualMainClamped(mp, k) == mp[Min(k, Len(mp) - 1) + 1]

\* the main of slot k (0-based)
ManualMain(mp, k) == mp[(k % Len(mp)) + 1]

ManualSlotName(k) == IF k % 2 = 0 THEN "Lunch" ELSE "Dinner"

\* one iteration of "for i in range(total_slots)"
ManualSlot ==
    /\ mode = "manual" /\ pc = "loop" /\ i < TotalSlots
    /\ LET slot_name == ManualSlotName(i)
           main_cid == ManualMain(main_pool, i)
           main == Card(main_cid)
           st0 == [comp_ids |-> <<main_cid>>, cal |-> main.calories,
                   p |-> main.protein_g, carbs |-> main.carbs_g, fat |-> main.fat_g,
                   side_idx |-> side_idx, attempts |-> 0]
       IN \E st \in {IF Len(side_pool) > 0 THEN ManualSides(st0, side_pool) ELSE st0} :
          /\ slots' = Append(slots, MealSlot(day, slot_name, st.comp_ids,
                                             st.cal, st.p, st.carbs, st.fat))
          /\ side_idx' = st.side_idx
          /\ day' = IF slot_name = "Dinner" THEN day + 1 ELSE day
    /\ i' = i + 1
    /\ UNCHANGED <<mode, cards, selection, targets, seed, pc, rnd, main_pool, side_pool,
                   week_slots, chosen_mains, chosen_sides, snacks_all, day_totals,
                   pool, error, grocery, run, variant, first>>

ManualReturn ==
    /\ mode = "manual" /\ pc = "loop" /\ i = TotalSlots
    /\ pc' = "planned"
    /\ UNCHANGED <<mode, cards, selection, targets, seed, rnd, main_pool, side_pool,
                   side_idx, i, day, slots, week_slots, chosen_mains, chosen_sides,
                   snacks_all, day_totals, pool, error, grocery, run, variant, first>>

----------------------------------------------------------------------------
(* generate_week_slots, card_supports_slot, choose_main_for_slot *)

\* str.lower() on the slot labels and card tags in use
LowerLabel(s) ==
    CASE s = "Lunch" -> "lunch"
      [] s = "Dinner" -> "dinner"
      [] s = "Breakfast" -> "breakfast"
      [] s = "Snack" -> "snack"
      [] s = "Snack1" -> "snack1"
      [] s = "Snack2" -> "snack2"
      [] s = "Snack3" -> "snack3"
      [] OTHER -> s

SnackNames == <<"Snack1", "Snack2", "Snack3">>

\* "Snack" if max_snacks_per_day == 1 else f"Snack{s+1}"
SnackName(s, max_snacks) == IF max_snacks = 1 THEN "Snack" ELSE SnackNames[s + 1]

\* faulty variant: the snacks are scheduled whatever include_snacks is
DaySlotsSnacksAlways(t, d) ==
    LET base_slots == IF t.meal_slots # <<>> THEN t.meal_slots ELSE <<"Lunch", "Dinner">>
        meals_per_day == Max(1, t.meals_per_day)
        meals == [k \in 1..meals_per_day |->
                    [day |-> d, slot |-> base_slots[((k - 1) % Len(base_slots)) + 1],
                     is_snack |-> FALSE]]
        snacks == IF t.max_snacks_per_day > 0
                  THEN [k \in 1..t.max_snacks_per_day |->
                          [day |-> d, slot |-> SnackName(k - 1, t.max_snacks_per_day),
                           is_snack |-> TRUE]]
                  ELSE <<>>
    IN meals \o snacks

\* the schedule of one day: the main meals, then the snacks
DaySlots(t, d) ==
    LET base_slots == IF t.meal_slots # <<>> THEN t.meal_slots ELSE <<"Lunch", "Dinner">>
        meals_per_day == Max(1, t.meals_per_day)
        meals == [k \in 1..meals_per_day |->
                    [day |-> d, slot |-> base_slots[((k - 1) % Len(base_slots)) + 1],
                     is_snack |-> FALSE]]
        snacks == IF t.include_snacks /\ t.max_snacks_per_day > 0
                  THEN [k \in 1..t.max_snacks_per_day |->
                          [day |-> d, slot |-> SnackName(k - 1, t.max_snacks_per_day),
                           is_snack |-> TRUE]]
                  ELSE <<>>
    IN meals \o snacks

RECURSIVE WeekFrom(_, _)
WeekFrom(t, d) == IF d >= WeekDays THEN <<>> ELSE DaySlots(t, d) \o WeekFrom(t, d + 1)

generate_week_slots(t) == WeekFrom(t, 0)

CardTags(cid) == {LowerLabel(Card(cid).meal_slots[k]) : k \in DOMAIN Card(cid).meal_slots}

card_supports_slot(cid, slot_name, is_snack) ==
    LET tags == CardTags(cid)
        slot_name_l == LowerLabel(slot_name)
    IN IF is_snack THEN "snack" \in tags
       ELSE IF tags # {}
            THEN CASE slot_name_l = "breakfast" -> "breakfast" \in tags
                   [] slot_name_l = "lunch" -> "lunch" \in tags \/ "dinner" \in tags
                   [] slot_name_l = "dinner" -> "dinner" \in tags \/ "lunch" \in tags
                   [] OTHER -> FALSE
            ELSE slot_name_l \in {"lunch", "dinner"}

\* the ids of seq that pass Test, in order (a list comprehension)
FilterIds(seq, Test(_)) == SelectSeq(seq, Test)

\* min(seq, key=calories): the first card of least calories
RECURSIVE LightestFrom(_, _)
LightestFrom(seq, best) ==
    IF seq = <<>> THEN best
    ELSE IF Card(Head(seq)).calories < Card(best).calories
         THEN LightestFrom(Tail(seq), Head(seq))
         ELSE LightestFrom(Tail(seq), best)

Lightest(seq) == LightestFrom(Tail(seq), Head(seq))

\* the mains choose_main_for_slot draws from
CompatibleMains(mains, slot_name) ==
    LET Sup(m) == card_supports_slot(m, slot_name, FALSE)
        compatible == FilterIds(mains, Sup)
    IN IF compatible = <<>> THEN mains ELSE compatible

\* faulty variant: the day's calories so far are left out of the test
WithinMainsAnyDay(mains, slot_name, day_cal_so_far, t) ==
    LET Fits(m) == Card(m).calories <= t.calories_max
    IN IF t.calories_max # 0 THEN FilterIds(CompatibleMains(mains, slot_name), Fits)
       ELSE <<>>

WithinMains(mains, slot_name, day_cal_so_far, t) ==
    LET Fits(m) == day_cal_so_far + Card(m).calories <= t.calories_max
    IN IF t.calories_max # 0 THEN FilterIds(CompatibleMains(mains, slot_name), Fits)
       ELSE <<>>

choose_main_for_slot(r, mains, slot_name, day_cal_so_far, t) ==
    LET within == WithinMains(mains, slot_name, day_cal_so_far, t)
    IN IF within # <<>> THEN Choice(within, r)
       ELSE [val |-> Lightest(CompatibleMains(mains, slot_name)), rnd |-> r]

----------------------------------------------------------------------------
(* build_auto_week_plan *)

EligibleMain(cid) ==
    /\ MainRole(Card(cid).role) /\ Card(cid).batch_friendly
    /\ 250 <= Card(cid).calories /\ Card(cid).calories <= 800

EligibleSide(cid) ==
    /\ SideRole(Card(cid).role) /\ Card(cid).batch_friendly
    /\ 40 <= Card(cid).calories /\ Card(cid).calories <= 300

EligibleSnack(cid) ==
    /\ Card(cid).batch_friendly /\ "snack" \in CardTags(cid)
    /\ 50 <= Card(cid).calories /\ Card(cid).calories <= 300

\* the range n_unique is drawn from
UniqueRange(t, total_available) ==
    LET min0 == IF t.min_unique_main_meals # 0 THEN t.min_unique_main_meals ELSE 2
        max0 == IF t.max_unique_main_meals # 0 THEN t.max_unique_main_meals
                ELSE Max(min0, 3)
        min_u == Max(1, min0)
        max1 == Max(min_u, max0)
        max_u == IF total_available > 0 THEN Min(max1, total_available) ELSE max1
    IN [min_u |-> min_u, max_u |-> max_u]

AutoSetup ==
    /\ mode = "auto" /\ pc = "start"
    /\ LET r0 == RandSeed(seed)
           ws == generate_week_slots(targets)
           mains_all == FilterIds(cards, EligibleMain)
           sides_all == FilterIds(cards, EligibleSide)
           snacks == FilterIds(cards, EligibleSnack)
           u == UniqueRange(targets, Len(mains_all) + Len(sides_all))
       IN IF ws = <<>> \/ mains_all = <<>> \/ u.max_u < u.min_u
          THEN \* no slots, no eligible mains, or randint on an empty range
               /\ pc' = "error" /\ error' = "ValueError"
               /\ rnd' = r0
               /\ UNCHANGED <<week_slots, chosen_mains, chosen_sides, snacks_all,
                              day_totals, slots, i>>
          ELSE LET nu == RandInt(u.min_u, u.max_u, r0)
                   n_mains == Max(1, Min(Len(mains_all), nu.val))
                   cm == Sample(mains_all, n_mains, nu.rnd)
                   max_sides == Min(Len(sides_all), Max(1, 2 * n_mains))
                   ns == RandInt(1, max_sides, cm.rnd)
                   cs == IF sides_all # <<>> THEN Sample(sides_all, ns.val, ns.rnd)
                         ELSE [seq |-> <<>>, rnd |-> cm.rnd]
               IN /\ week_slots' = ws
                  /\ snacks_all' = snacks
                  /\ chosen_mains' = cm.seq
                  /\ chosen_sides' = cs.seq
                  /\ rnd' = cs.rnd
                  /\ day_totals' = [d \in 0..(WeekDays - 1) |-> 0]
                  /\ slots' = <<>> /\ i' = 0
                  /\ pc' = "loop" /\ error' = ""
    /\ UNCHANGED <<mode, cards, selection, targets, seed, main_pool, side_pool,
                   side_idx, day, pool, grocery, run, variant, first>>

\* faulty variant: the lightest snack is taken whatever the day's total
SnackChoiceAlways(r, snacks, day_total, t) ==
    LET Under(c) == day_total + Card(c).calories <= t.calories_max
        under == IF t.calories_max # 0 THEN FilterIds(snacks, Under) ELSE <<>>
    IN IF under # <<>> THEN Choice(under, r)
       ELSE [val |-> Lightest(snacks), rnd |-> r]

\* the snack of a snack slot, or "" when the slot is skipped
SnackChoice(r, snacks, day_total, t) ==
    LET Under(c) == day_total + Card(c).calories <= t.calories_max
        under == IF t.calories_max # 0 THEN FilterIds(snacks, Under) ELSE <<>>
    IN IF under # <<>> THEN Choice(under, r)
       ELSE IF t.calories_min # 0 /\ day_total < t.calories_min
            THEN [val |-> Lightest(snacks), rnd |-> r]
            ELSE [val |-> "", rnd |-> r]

\* within_meal_band
WithinMealBand(cal, new_meal_cal) ==
    \/ (cal < MealBandLow /\ new_meal_cal <= MealCalMax)
    \/ (MealBandLow <= cal /\ cal <= MealCalMax /\ new_meal_cal <= MealCalMax)

\* the daily test of a side: new_day_cal is the day's total before this meal
\* plus the side's calories; x <= calories_max * 1.05 is 100 x <= 105 calories_max
DayAllows(day_total, side_cal, t) ==
    LET new_day_cal == day_total + side_cal
    IN \/ t.calories_max = 0
       \/ new_day_cal <= t.calories_max
       \/ /\ t.calories_min # 0
          /\ day_total < t.calories_min
          /\ 100 * new_day_cal <= 105 * t.calories_max

\* the loop over side_candidates
RECURSIVE AutoSides(_, _, _, _, _)
AutoSides(st, cands, slot_name, day_total, t) ==
    IF cands = <<>> \/ Len(st.comp_ids) >= MaxComponents THEN st
    ELSE LET sid == Head(cands)
             side == Card(sid)
         IN IF /\ card_supports_slot(sid, slot_name, FALSE)
               /\ WithinMealBand(st.cal, st.cal + side.calories)
               /\ DayAllows(day_total, side.calories, t)
            THEN AutoSides([comp_ids |-> Append(st.comp_ids, sid),
                            cal |-> st.cal + side.calories,
                            p |-> st.p + side.protein_g,
                            c |-> st.c + side.carbs_g,
                            f |-> st.f + side.fat_g],
                           Tail(cands), slot_name, day_total, t)
            ELSE AutoSides(st, Tail(cands), slot_name, day_total, t)

\* faulty variant: the main's macros are scaled by its default servings
MealStartScaled(main_cid) ==
    [comp_ids |-> <<main_cid>>,
     cal |-> Card(main_cid).calories * Card(main_cid).servings_default,
     p |-> Card(main_cid).protein_g * Card(main_cid).servings_default,
     c |-> Card(main_cid).carbs_g * Card(main_cid).servings_default,
     f |-> Card(main_cid).fat_g * Card(main_cid).servings_default]

\* the meal before any side is attached
MealStart(main_cid) ==
    [comp_ids |-> <<main_cid>>, cal |-> Card(main_cid).calories,
     p |-> Card(main_cid).protein_g, c |-> Card(main_cid).carbs_g,
     f |-> Card(main_cid).fat_g]

\* side_candidates = chosen_sides[:]; rnd.shuffle(side_candidates)
SideCandidates(sides, r) ==
    IF sides # <<>> THEN Shuffle(sides, r) ELSE [seq |-> <<>>, rnd |-> r]

MealWithSides(main_cid, sh, slot_name, day_total, t) ==
    [st |-> AutoSides(MealStart(main_cid), sh.seq, slot_name, day_total, t),
     rnd |-> sh.rnd]

MealAfterMain(m, sides, slot_name, day_total, t) ==
    MealWithSides(m.val, SideCandidates(sides, m.rnd), slot_name, day_total, t)

\* a main meal: the main, then the sides; st is the meal, rnd the generator after it
AutoMeal(r, mains, sides, slot_name, day_total, t) ==
    MealAfterMain(choose_main_for_slot(r, mains, slot_name, day_total, t),
                  sides, slot_name, day_total, t)

MealSlotOf(ws, st) == MealSlot(ws.day, ws.slot, st.comp_ids, st.cal, st.p, st.c, st.f)

SnackSlotOf(ws, cid) ==
    MealSlot(ws.day, ws.slot, <<cid>>, Card(cid).calories, Card(cid).protein_g,
             Card(cid).carbs_g, Card(cid).fat_g)

\* the snack branch of the loop body
AutoSnackStep(ws, sn) ==
    /\ rnd' = sn.rnd
    /\ IF sn.val = ""
       THEN UNCHANGED <<slots, day_totals>>
       ELSE /\ day_totals' = [day_totals EXCEPT ![ws.day] = @ + Card(sn.val).calories]
            /\ slots' = Append(slots, SnackSlotOf(ws, sn.val))

\* the main meal branch of the loop body
AutoMealStep(ws, res) ==
    /\ rnd' = res.rnd
    /\ day_totals' = [day_totals EXCEPT ![ws.day] = @ + res.st.cal]
    /\ slots' = Append(slots, MealSlotOf(ws, res.st))

AutoStep(ws) ==
    IF ws.is_snack
    THEN IF snacks_all = <<>>
         THEN UNCHANGED <<rnd, slots, day_totals>>
         ELSE AutoSnackStep(ws, SnackChoice(rnd, snacks_all, day_totals[ws.day], targets))
    ELSE AutoMealStep(ws, AutoMeal(rnd, chosen_mains, chosen_sides, ws.slot,
                                   day_totals[ws.day], targets))

\* one iteration of "for (day, slot_name, is_snack) in week_slots"
AutoSlot ==
    /\ mode = "auto" /\ pc = "loop" /\ i < Len(week_slots)
    /\ AutoStep(week_slots[i + 1])
    /\ i' = i + 1
    /\ UNCHANGED <<mode, cards, selection, targets, seed, pc, main_pool, side_pool,
                   side_idx, day, week_slots, chosen_mains, chosen_sides, snacks_all,
                   pool, error, grocery, run, variant, first>>

AutoReturn ==
    /\ mode = "auto" /\ pc = "loop" /\ i = Len(week_slots)
    /\ pc' = "planned"
    /\ UNCHANGED <<mode, cards, selection, targets, seed, rnd, main_pool, side_pool,
                   side_idx, i, day, slots, week_slots, chosen_mains, chosen_sides,
                   snacks_all, day_totals, pool, error, grocery, run, variant, first>>

----------------------------------------------------------------------------
(* aggregate_grocery *)

\* faulty variant: trims but keeps the case
normalize_key_unit_cased(item, unit) ==
    [item |-> StrStrip(item), unit |-> IF StrStrip(unit) = U_cups THEN U_cup ELSE StrStrip(unit)]

normalize_key_unit(item, unit) ==
    LET item_norm == StrLower(StrStrip(item))
        unit_norm == StrLower(StrStrip(unit))
    IN [item |-> item_norm, unit |-> IF unit_norm = U_cups THEN U_cup ELSE unit_norm]

\* round n/d (d > 0, n >= 0) to the nearest whole number, ties to the even one
RoundHalfEven(n, d) ==
    LET q == n \div d
        r == n % d
    IN IF 2 * r < d THEN q
       ELSE IF 2 * r > d THEN q + 1
       ELSE IF q % 2 = 0 THEN q ELSE q + 1

\* round(qty): a quantity in units of 1/QDen rounded to a whole number
RoundWhole(u) == RoundHalfEven(u, QDen) * QDen

\* round(qty, 1): rounded to one decimal place
RoundTenth(u) == RoundHalfEven(10 * u, QDen) * (QDen \div 10)

\* faulty variant: ounces are added to grams without the conversion
MergeGramsOuncesPlain(g, oz) == RoundTenth(g + oz)

\* round(g + oz * OZ_TO_G, 1) with OZ_TO_G = 28.349523125 = 28 + 559237/1600000,
\* for g and oz in units of 1/QDen = 1/80.  Ten times the total is
\* (g + 28 oz)/8 + oz * 559237/12800000; the product is formed in two limbs of
\* base 10000 (559237 = 55 * 10000 + 9237) to stay within 32-bit integers.
MergeGramsOunces(g, oz) ==
    LET low == oz * 9237
        p1 == oz * 55 + (low \div 10000)
        p0 == low % 10000
        a == g + 28 * oz
        frac == (a % 8) * 1600000 + (p1 % 1280) * 10000 + p0
        whole == (a \div 8) + (p1 \div 1280) + (frac \div 12800000)
        tenths == whole + RoundHalfEven(frac % 12800000, 12800000)
                  + (IF 2 * (frac % 12800000) = 12800000 /\ whole % 2 = 1
                        /\ RoundHalfEven(frac % 12800000, 12800000) = 0
                     THEN 1 ELSE 0)
    IN tenths * (QDen \div 10)

\* the card ids of a plan, one entry per listing, in plan order
RECURSIVE FlatIds(_)
FlatIds(ss) == IF ss = <<>> THEN <<>> ELSE Head(ss).card_ids \o FlatIds(Tail(ss))

\* the keys of a Counter/dict in insertion order
RECURSIVE FirstSeen(_, _)
FirstSeen(ids, acc) ==
    IF ids = <<>> THEN acc
    ELSE IF \E k \in DOMAIN acc : acc[k] = Head(ids) THEN FirstSeen(Tail(ids), acc)
    ELSE FirstSeen(Tail(ids), Append(acc, Head(ids)))

\* faulty variant: the division by servings_default is forgotten
ScaleQtyUnscaled(qty, used_servings, servings_default) == qty * used_servings

\* used_servings / servings_default applied to one quantity
ScaleQty(qty, used_servings, servings_default) ==
    (qty * used_servings) \div servings_default

\* by_item after one ingredient: the record of the (item, unit) key is created
\* with the section of its first occurrence, and the scaled quantity is added
AddIngredient(by_item, ing, used, sd) ==
    LET key == normalize_key_unit(ing.item, ing.unit)
        Hit(k) == by_item[k].item = key.item /\ by_item[k].unit = key.unit
        add == ScaleQty(ing.qty, used, sd)
    IN IF \E k \in DOMAIN by_item : Hit(k)
       THEN LET k == CHOOSE k \in DOMAIN by_item : Hit(k)
            IN [by_item EXCEPT ![k].qty = @ + add]
       ELSE Append(by_item, [item |-> key.item, qty |-> add, unit |-> key.unit,
                             grocery_section |-> ing.grocery_section])

RECURSIVE AddCard(_, _, _, _)
AddCard(by_item, ings, used, sd) ==
    IF ings = <<>> THEN by_item
    ELSE AddCard(AddIngredient(by_item, Head(ings), used, sd), Tail(ings), used, sd)

RECURSIVE ByItemFrom(_, _, _)
ByItemFrom(by_item, cids, all_ids) ==
    IF cids = <<>> THEN by_item
    ELSE LET cid == Head(cids)
         IN ByItemFrom(AddCard(by_item, Card(cid).ingredients, Count(all_ids, cid),
                               Card(cid).servings_default),
                       Tail(cids), all_ids)

ByItem(ss) == ByItemFrom(<<>>, FirstSeen(FlatIds(ss), <<>>), FlatIds(ss))

\* merged[item]: the records of one item, in the order their units were inserted
UnitsOf(by_item, item) ==
    LET Same(rec) == rec.item = item
    IN SelectSeq(by_item, Same)

\* the row of one item: grams and ounces merge into grams; otherwise the first
\* unit of the item is the row's unit
FinalRow(units) ==
    LET item == units[1].item
        section == units[Len(units)].grocery_section      \* meta[item]: last write
        Has(u) == \E k \in DOMAIN units : units[k].unit = u
        Qty(u) == units[CHOOSE k \in DOMAIN units : units[k].unit = u].qty
    IN IF Has(U_g) /\ Has(U_oz)
       THEN [item |-> item, qty |-> MergeGramsOunces(Qty(U_g), Qty(U_oz)),
             unit |-> U_g, grocery_section |-> section]
       ELSE LET unit == units[1].unit
                qty == units[1].qty
            IN [item |-> item,
                qty |-> IF unit = U_g THEN RoundWhole(qty)
                        ELSE IF unit \in {U_oz, U_tbsp, U_tsp, U_cup} THEN RoundTenth(qty)
                        ELSE qty,
                unit |-> unit, grocery_section |-> section]

RowLess(a, b) ==
    \/ StrLess(a.grocery_section, b.grocery_section)
    \/ a.grocery_section = b.grocery_section /\ StrLess(a.item, b.item)

\* list.sort(key=(grocery_section, item)): stable
RECURSIVE InsertRow(_, _)
InsertRow(sorted, row) ==
    IF sorted = <<>> THEN <<row>>
    ELSE IF RowLess(row, Head(sorted)) THEN <<row>> \o sorted
    ELSE <<Head(sorted)>> \o InsertRow(Tail(sorted), row)

RECURSIVE SortRows(_, _)
SortRows(rows, acc) ==
    IF rows = <<>> THEN acc ELSE SortRows(Tail(rows), InsertRow(acc, Head(rows)))

\* the rows before the sort, one per item in insertion order
FinalRows(by_item) ==
    LET items == FirstSeen([k \in DOMAIN by_item |-> by_item[k].item], <<>>)
    IN [k \in DOMAIN items |-> FinalRow(UnitsOf(by_item, items[k]))]

aggregate_grocery(ss) == SortRows(FinalRows(ByItem(ss)), <<>>)

Aggregate ==
    /\ pc = "planned"
    /\ grocery' = aggregate_grocery(slots)
    /\ pc' = "done"
    /\ UNCHANGED <<mode, cards, selection, targets, seed, rnd, main_pool, side_pool,
                   side_idx, i, day, slots, week_slots, chosen_mains, chosen_sides,
                   snacks_all, day_totals, pool, error, run, variant, first>>

----------------------------------------------------------------------------
(* A second run: the caller runs the planner again on the same inputs       *)
(* ("same"), or on the selection without its unknown ids ("known").         *)

Outcome == [pc |-> pc, error |-> error, slots |-> slots, pool |-> pool,
            grocery |-> grocery]

NoOutcome == [pc |-> "", error |-> "", slots |-> <<>>, pool |-> <<>>, grocery |-> <<>>]

KnownOnly(sel) ==
    LET Known(e) == InCards(e.id)
    IN SelectSeq(sel, Known)

Rerun ==
    /\ run = 1 /\ pc \in {"done", "error"} /\ mode \in {"manual", "auto", "simple"}
    /\ \E v \in {"same", "known"} :
          /\ v = "known" => mode = "manual" /\ KnownOnly(selection) # selection
          /\ variant' = v
          /\ selection' = IF v = "known" THEN KnownOnly(selection) ELSE selection
    /\ first' = Outcome
    /\ run' = 2
    /\ pc' = "start" /\ error' = ""
    /\ main_pool' = <<>> /\ side_pool' = <<>> /\ side_idx' = 0 /\ i' = 0 /\ day' = 0
    /\ slots' = <<>> /\ week_slots' = <<>> /\ chosen_mains' = <<>>
    /\ chosen_sides' = <<>> /\ snacks_all' = <<>>
    /\ day_totals' = [d \in 0..(WeekDays - 1) |-> 0]
    /\ pool' = <<>> /\ grocery' = <<>>
    /\ UNCHANGED <<mode, cards, targets, seed, rnd>>

----------------------------------------------------------------------------
(* Specifications *)

Repos == { <<"A", "B">>, FullRepo, <<"B", "E", "G">>, <<"C", "F", "E">>,
           <<"A", "C", "B", "E">> }

CalorieBands == { <<1400, 1600>>, <<600, 1000>>, <<1000, 1000>>, <<0, 0>> }
UniqueRanges == { <<0, 0>>, <<1, 1>>, <<3, 4>> }
SlotLists == { <<"Lunch", "Dinner">>, <<"Breakfast", "Lunch", "Dinner">> }
MealsPerDay == {0, 2, 3}
SnackPolicies == { <<FALSE, 2>>, <<TRUE, 0>>, <<TRUE, 1>>, <<TRUE, 2>> }

TargetsSet ==
    { [calories_min |-> cb[1], calories_max |-> cb[2],
       min_unique_main_meals |-> u[1], max_unique_main_meals |-> u[2],
       meal_slots |-> sl, meals_per_day |-> mpd,
       include_snacks |-> sp[1], max_snacks_per_day |-> sp[2]] :
      cb \in CalorieBands, u \in UniqueRanges, sl \in SlotLists,
      mpd \in MealsPerDay, sp \in SnackPolicies }

Blank ==
    /\ pc = "start" /\ rnd = 0 /\ error = ""
    /\ main_pool = <<>> /\ side_pool = <<>> /\ side_idx = 0 /\ i = 0 /\ day = 0
    /\ slots = <<>> /\ week_slots = <<>> /\ chosen_mains = <<>> /\ chosen_sides = <<>>
    /\ snacks_all = <<>> /\ day_totals = [d \in 0..(WeekDays - 1) |-> 0]
    /\ pool = <<>> /\ grocery = <<>>
    /\ run = 1 /\ variant = "none" /\ first = NoOutcome

ManualRepos == { FullRepo, <<"A", "B">> }

InitManual ==
    /\ mode = "manual" /\ cards \in ManualRepos /\ selection \in Selections
    /\ targets = DefaultTargets /\ seed \in Seeds /\ Blank

InitSimple ==
    /\ mode = "simple" /\ cards \in ManualRepos /\ selection \in Selections
    /\ targets = DefaultTargets /\ seed = 0 /\ Blank

InitAuto ==
    /\ mode = "auto" /\ cards \in Repos /\ selection = <<>>
    /\ targets \in TargetsSet /\ seed \in Seeds /\ Blank

Init == InitManual \/ InitSimple \/ InitAuto

Next ==
    \/ ExpandPool
    \/ ManualPools
    \/ ManualShuffle
    \/ ManualSlot
    \/ ManualReturn
    \/ AutoSetup
    \/ AutoSlot
    \/ AutoReturn
    \/ Aggregate
    \/ Rerun

Spec == Init /\ [][Next]_vars

\* aggregate_grocery on its own: the plan is an input
PlanEntries == { <<"A">>, <<"B">>, <<"C">>, <<"D">>, <<"E">>, <<"F">>, <<"G">>,
                 <<"A", "B">>, <<"A", "C">>, <<"B", "B">>, <<"D", "B">>, <<"C", "G">> }

PlanOf(entries) ==
    [k \in DOMAIN entries |->
        MealSlot((k - 1) \div 2, ManualSlotName(k - 1), entries[k], CalOf(entries[k]),
                 ProtOf(entries[k]), CarbOf(entries[k]), FatOf(entries[k]))]

InitGrocery ==
    /\ mode = "grocery" /\ cards = FullRepo /\ selection = <<>>
    /\ targets = DefaultTargets /\ seed = 0
    /\ pc = "planned" /\ rnd = 0 /\ error = ""
    /\ main_pool = <<>> /\ side_pool = <<>> /\ side_idx = 0 /\ i = 0 /\ day = 0
    /\ \E n \in 1..MaxPlanLen : \E e \in [1..n -> PlanEntries] : slots = PlanOf(e)
    /\ week_slots = <<>> /\ chosen_mains = <<>> /\ chosen_sides = <<>>
    /\ snacks_all = <<>> /\ day_totals = [d \in 0..(WeekDays - 1) |-> 0]
    /\ pool = <<>> /\ grocery = <<>>
    /\ run = 1 /\ variant = "none" /\ first = NoOutcome

NextGrocery == Aggregate

SpecGrocery == InitGrocery /\ [][NextGrocery]_vars

\* build_week_plan_manual on its own, run to completion
NextManual ==
    \/ ManualPools
    \/ ManualShuffle
    \/ ManualSlot
    \/ ManualReturn

SpecManual == InitManual /\ [][NextManual]_vars /\ WF_vars(NextManual)

----------------------------------------------------------------------------
(* Properties *)

SnackLabel(label) == label \in {"Snack"} \cup Range(SnackNames)

MainCapable(cid) == Card(cid).role \in {"main", "both"}
SideCapable(cid) == Card(cid).role \in {"side", "both"}

Planning == mode \in {"manual", "auto"}

WeekCalories == SeqSum([k \in DOMAIN slots |-> slots[k].calories])

GroceryHas(item, qty, unit) ==
    \E k \in DOMAIN grocery :
        grocery[k].item = item /\ grocery[k].qty = qty /\ grocery[k].unit = unit

\* C1 as claimed: a non-snack slot has 1 to 3 component ids of which exactly one
\* belongs to a card of role main or both; a snack slot has exactly one
\* component id, of a card that carries the snack tag.
C1_ExactlyOneMainCapable ==
    Planning =>
        \A k \in DOMAIN slots :
            LET ids == slots[k].card_ids
            IN IF SnackLabel(slots[k].slot)
               THEN Len(ids) = 1 /\ "snack" \in CardTags(ids[1])
               ELSE /\ Len(ids) \in 1..3
                    /\ Cardinality({j \in DOMAIN ids : MainCapable(ids[j])}) = 1

\* C1 amended: a non-snack slot has 1 to 3 component ids, the first of a card of
\* role main or both (the slot's main) and every further one of a card of role
\* side or both (so a side of role both is a second main-capable id); a snack
\* slot has exactly one component id, of a card that carries the snack tag.
C1_MainThenSides ==
    Planning =>
        \A k \in DOMAIN slots :
            LET ids == slots[k].card_ids
            IN IF SnackLabel(slots[k].slot)
               THEN Len(ids) = 1 /\ "snack" \in CardTags(ids[1])
               ELSE /\ Len(ids) \in 1..3
                    /\ MainCapable(ids[1])
                    /\ \A j \in 2..Len(ids) : SideCapable(ids[j])

C1_Witness ==
    /\ mode = "auto" /\ pc = "done"
    /\ \E k \in DOMAIN slots : SnackLabel(slots[k].slot)
    /\ \E k \in DOMAIN slots :
          /\ ~SnackLabel(slots[k].slot)
          /\ Len(slots[k].card_ids) >= 2
          /\ MainCapable(slots[k].card_ids[2])

\* C2 as claimed: every slot's total calories is at most 800.
C2_EverySlotAtMost800 ==
    Planning => \A k \in DOMAIN slots : slots[k].calories <= 800

\* C2 amended: a side is attached only if the meal stays at or below 800 kcal:
\* every slot that holds a side totals at most 800, and a slot totals more than
\* 800 only in manual mode, when it holds its main alone and that main's own
\* calories exceed 800 (automatic mode only uses mains of 250 to 800 kcal).
C2_SidesKeepMealAtMost800 ==
    Planning =>
        \A k \in DOMAIN slots :
            /\ Len(slots[k].card_ids) >= 2 => slots[k].calories <= 800
            /\ slots[k].calories > 800 =>
                  /\ mode = "manual"
                  /\ Len(slots[k].card_ids) = 1
                  /\ Card(slots[k].card_ids[1]).calories > 800

C2_Witness ==
    /\ Planning /\ pc = "done"
    /\ \E k \in DOMAIN slots : Len(slots[k].card_ids) = 3 /\ slots[k].calories = 800

\* The end-to-end example: repository of A and B, selection {A: 7, B: 7}.
ExampleRun ==
    /\ mode = "manual" /\ pc = "done"
    /\ cards = <<"A", "B">>
    /\ selection = << [id |-> "A", n |-> 7], [id |-> "B", n |-> 7] >>

\* A's ingredients times 7: rice 200 g -> 1400 g, chicken 8 oz -> 56 oz
ExampleRowsOfA ==
    /\ GroceryHas(<<"r","i","c","e">>, 1400 * QDen, U_g)
    /\ GroceryHas(<<"c","h","i","c","k","e","n">>, 56 * QDen, U_oz)

C4_UsesWithinCap ==
    Planning =>
        \A cid \in CardIds :
            Count(FlatIds(slots), cid) <= Card(cid).meal_freq_cap_per_week

\* C5: a second run of the planner on the same cards, targets or selection and
\* seed ends as the first did, with the same slot sequence.
C5_SameSeedSamePlan ==
    (Planning /\ run = 2 /\ variant = "same" /\ pc \in {"done", "error"}) =>
        /\ slots = first.slots
        /\ error = first.error
        /\ pc = first.pc

C5_Witness ==
    /\ mode = "auto" /\ run = 2 /\ variant = "same" /\ pc = "done"
    /\ Len(slots) >= 14
    /\ \E a, b \in DOMAIN slots : slots[a].card_ids # slots[b].card_ids
    /\ slots = first.slots

\* C6: a manual run whose main pool is not empty returns exactly 14 slots; slot
\* i (0-based) has day i div 2, label Lunch for even i and Dinner for odd i, and
\* its first component is mainPool[i mod len(mainPool)].
C6_FourteenSlotsCycling ==
    /\ (mode = "manual" /\ pc \in {"planned", "done"}) =>
          /\ Len(slots) = 14
          /\ \A k \in 1..14 :
                /\ slots[k].day = (k - 1) \div 2
                /\ slots[k].slot = (IF (k - 1) % 2 = 0 THEN "Lunch" ELSE "Dinner")
                /\ slots[k].card_ids[1] = main_pool[((k - 1) % Len(main_pool)) + 1]
    /\ (mode = "manual" /\ pc = "error") => main_pool = <<>>

C6_Witness ==
    /\ mode = "manual" /\ pc = "done" /\ Len(main_pool) = 3
    /\ Cardinality(Range(main_pool)) = 2

\* no selected card of the repository that may be a main has a positive use
NoMainSelected ==
    \A k \in DOMAIN selection :
        ~ /\ InCards(selection[k].id)
          /\ MainCapable(selection[k].id)
          /\ selection[k].n > 0
          /\ Card(selection[k].id).meal_freq_cap_per_week > 0

\* C7: a manual run whose selection gives no main (only sides, or mains with a
\* clamped count of 0) ends in the validation error with no plan; and no plan
\* of a manual run holds a slot without a main.
C7_NoMainIsAnError ==
    /\ (mode = "manual" /\ pc # "start" /\ NoMainSelected) =>
          pc = "error" /\ error = "ValueError" /\ slots = <<>> /\ grocery = <<>>
    /\ mode = "manual" =>
          \A k \in DOMAIN slots : MainCapable(slots[k].card_ids[1])

C7_Witness ==
    /\ mode = "manual" /\ pc = "error" /\ run = 1
    /\ \E k \in DOMAIN selection :
          /\ InCards(selection[k].id) /\ ~MainCapable(selection[k].id)
          /\ selection[k].n > 0

HasUnknownId == \E k \in DOMAIN selection : ~InCards(selection[k].id)

\* C8: in build_week_plan_manual the plan for a selection with unknown ids is
\* the plan for the selection without them, under the same seed; expand_pool
\* ends with an error and no pool when the selection names an unknown id.
C8_UnknownIds ==
    /\ (mode = "manual" /\ run = 2 /\ variant = "known" /\ pc \in {"done", "error"}) =>
          /\ slots = first.slots
          /\ error = first.error
          /\ pc = first.pc
    /\ (mode = "simple" /\ pc # "start" /\ HasUnknownId) =>
          pc = "error" /\ error = "KeyError" /\ pool = <<>>

C8_Witness ==
    /\ mode = "manual" /\ run = 2 /\ variant = "known" /\ pc = "done"
    /\ cards = <<"A", "B">> /\ Len(selection) = 1 /\ slots # <<>>

\* the units under which by_item holds a quantity of an item
UnitsHeld(item) ==
    {ByItem(slots)[k].unit : k \in {j \in DOMAIN ByItem(slots) : ByItem(slots)[j].item = item}}

ItemsHeld == {ByItem(slots)[k].item : k \in DOMAIN ByItem(slots)}

\* C9 as claimed: aggregate_grocery does not return rows when an item holds
\* quantities in two or more units other than the pair {g, oz}; every quantity
\* held under a unit is in the rows returned.
C9_NoSilentDrop ==
    (mode = "grocery" /\ pc = "done") =>
        \A item \in ItemsHeld :
            Cardinality(UnitsHeld(item)) >= 2 => UnitsHeld(item) = {U_g, U_oz}

\* the plan lists one card only, servings_default times
SingleCardScaleOne(cid) ==
    /\ mode = "grocery" /\ pc = "done"
    /\ Range(FlatIds(slots)) = {cid}
    /\ Len(FlatIds(slots)) = Card(cid).servings_default

NormItem(ing) == StrLower(StrStrip(ing.item))

NormUnit(ing) ==
    IF StrLower(StrStrip(ing.unit)) = U_cups THEN U_cup ELSE StrLower(StrStrip(ing.unit))

\* q is u rounded to a multiple of step (to the nearest one)
RoundedTo(q, u, step) == q % step = 0 /\ 2 * (q - u) <= step /\ 2 * (u - q) <= step

\* the quantity a row shows for a raw quantity in a unit
ShownAs(q, u, unit) ==
    IF unit = U_g THEN RoundedTo(q, u, QDen)
    ELSE IF unit \in {U_oz, U_tbsp, U_tsp, U_cup} THEN RoundedTo(q, u, QDen \div 10)
    ELSE q = u

\* the card's ingredients of one normalised item name, and those of them in one unit
IngsOf(cid, item) ==
    {j \in DOMAIN Card(cid).ingredients : NormItem(Card(cid).ingredients[j]) = item}

IngsIn(cid, item, unit) ==
    {j \in IngsOf(cid, item) : NormUnit(Card(cid).ingredients[j]) = unit}

RawTotal(cid, item, unit) ==
    SeqSum([j \in DOMAIN Card(cid).ingredients |->
                IF j \in IngsIn(cid, item, unit) THEN Card(cid).ingredients[j].qty ELSE 0])

FirstOf(js) == CHOOSE j \in js : \A h \in js : j <= h

\* the unit of the item that the card introduces last, and the section it has there
LastUnitSection(cid, item) ==
    LET j == CHOOSE j \in IngsOf(cid, item) :
                 /\ j = FirstOf(IngsIn(cid, item, NormUnit(Card(cid).ingredients[j])))
                 /\ \A h \in IngsOf(cid, item) :
                       FirstOf(IngsIn(cid, item, NormUnit(Card(cid).ingredients[h]))) <= j
    IN Card(cid).ingredients[j].grocery_section

\* the row of a single card's item
RowOfItem(cid, item, row) ==
    LET lead == Card(cid).ingredients[FirstOf(IngsOf(cid, item))]
    IN /\ row.item = item
       /\ row.grocery_section = LastUnitSection(cid, item)
       /\ IF IngsIn(cid, item, U_g) # {} /\ IngsIn(cid, item, U_oz) # {}
          THEN /\ row.unit = U_g
               /\ row.qty = MergeGramsOunces(RawTotal(cid, item, U_g), RawTotal(cid, item, U_oz))
          ELSE /\ row.unit = NormUnit(lead)
               /\ ShownAs(row.qty, RawTotal(cid, item, NormUnit(lead)), NormUnit(lead))

HeldQty(item, unit) ==
    SeqSum([k \in DOMAIN ByItem(slots) |->
               IF ByItem(slots)[k].item = item /\ ByItem(slots)[k].unit = unit
               THEN ByItem(slots)[k].qty ELSE 0])

RowsOf(item) == {k \in DOMAIN grocery : grocery[k].item = item}

\* q is g + oz * 28.349523125 rounded to one decimal place, all in units of
\* 1/QDen; 28.349523125 = 28 + 559237/1600000
MergedAs(q, g, oz) ==
    LET d == q - g - 28 * oz
    IN /\ q % (QDen \div 10) = 0
       /\ d >= -(QDen \div 20) /\ d <= oz + (QDen \div 20)
       /\ 2 * (d * 1600000 - oz * 559237) <= (QDen \div 10) * 1600000
       /\ 2 * (oz * 559237 - d * 1600000) <= (QDen \div 10) * 1600000

\* C11: an item held in both g and oz has exactly one row, in g, of quantity
\* grams + ounces * 28.349523125 rounded to one decimal place (100 g and 1 oz
\* give 128.3 g); an item held in a single unit has exactly one row, in that
\* unit, rounded to a whole number for g and to one decimal place for oz, tbsp,
\* tsp and cup.
C11_GramOunceMerge ==
    (mode = "grocery" /\ pc = "done") =>
        \A item \in ItemsHeld :
            /\ {U_g, U_oz} \subseteq UnitsHeld(item) =>
                  /\ Cardinality(RowsOf(item)) = 1
                  /\ \A k \in RowsOf(item) :
                        /\ grocery[k].unit = U_g
                        /\ MergedAs(grocery[k].qty, HeldQty(item, U_g), HeldQty(item, U_oz))
            /\ Cardinality(UnitsHeld(item)) = 1 =>
                  /\ Cardinality(RowsOf(item)) = 1
                  /\ \A k \in RowsOf(item) :
                        /\ grocery[k].unit \in UnitsHeld(item)
                        /\ ShownAs(grocery[k].qty, HeldQty(item, grocery[k].unit),
                                   grocery[k].unit)

C11_Witness ==
    /\ mode = "grocery" /\ pc = "done"
    /\ Len(slots) = 1 /\ slots[1].card_ids = <<"G">>
    /\ GroceryHas(<<"f","l","o","u","r">>, 10264, U_g)

\* the units whose quantities a row of an item is made from
ContributingUnits(row) ==
    IF {U_g, U_oz} \subseteq UnitsHeld(row.item) THEN {U_g, U_oz} ELSE {row.unit}

\* the section of the first ingredient occurrence, in aggregation order, that
\* contributed to a row (by_item keeps the section of each key's first occurrence)
FirstSection(row) ==
    LET Hit(k) == /\ ByItem(slots)[k].item = row.item
                  /\ ByItem(slots)[k].unit \in ContributingUnits(row)
        k == CHOOSE k \in DOMAIN ByItem(slots) :
                 Hit(k) /\ \A h \in 1..(k - 1) : ~Hit(h)
    IN ByItem(slots)[k].grocery_section

\* C12 as claimed: every row carries the grocery section of the first
\* ingredient occurrence, in aggregation order, that contributed to the row.
C12_FirstOccurrenceSection ==
    (mode = "grocery" /\ pc = "done") =>
        \A k \in DOMAIN grocery : grocery[k].grocery_section = FirstSection(grocery[k])

\* the calories of the slots of slot k's day that precede slot k in the plan
DayBefore(k) ==
    SeqSum([h \in DOMAIN slots |->
               IF h < k /\ slots[h].day = slots[k].day THEN slots[h].calories ELSE 0])

\* C13 as claimed: in automatic mode a side is attached to a non-snack slot only
\* if the day's running total after the addition (the day's earlier slots, this
\* meal's main, the sides already attached and the new side) is at most
\* calories_max, or at most 1.05 * calories_max when the running total before
\* the addition was below calories_min.
C13_SideKeepsDayWithinMax ==
    (mode = "auto" /\ targets.calories_max > 0) =>
        \A k \in DOMAIN slots :
            ~SnackLabel(slots[k].slot) =>
                \A j \in 2..Len(slots[k].card_ids) :
                    LET before == DayBefore(k) + CalOf(SubSeq(slots[k].card_ids, 1, j - 1))
                        after == before + Card(slots[k].card_ids[j]).calories
                    IN \/ after <= targets.calories_max
                       \/ /\ before < targets.calories_min
                          /\ 100 * after <= 105 * targets.calories_max

\* the cards of the repository that are eligible as a main or as a side
EligibleCards == {k \in DOMAIN cards : EligibleMain(cards[k]) \/ EligibleSide(cards[k])}

HasEligibleMain == \E k \in DOMAIN cards : EligibleMain(cards[k])

\* C14 as claimed: with 1 <= min_unique_main_meals <= max_unique_main_meals and
\* at least one eligible main, automatic planning chooses n pairwise distinct
\* eligible mains, n in [min, max] clamped to [1, number of eligible cards], and
\* returns a plan; automatic planning fails only when no main is eligible.
C14_AutoAlwaysPlans ==
    /\ (/\ mode = "auto" /\ HasEligibleMain
        /\ 1 <= targets.min_unique_main_meals
        /\ targets.min_unique_main_meals <= targets.max_unique_main_meals) =>
          /\ pc # "error"
          /\ pc \in {"loop", "planned", "done"} =>
                /\ Len(chosen_mains) >=
                      Max(1, Min(targets.min_unique_main_meals, Cardinality(EligibleCards)))
                /\ Len(chosen_mains) <=
                      Max(1, Min(targets.max_unique_main_meals, Cardinality(EligibleCards)))
                /\ \A a, b \in DOMAIN chosen_mains :
                      a # b => chosen_mains[a] # chosen_mains[b]
                /\ \A a \in DOMAIN chosen_mains : EligibleMain(chosen_mains[a])
    /\ (mode = "auto" /\ pc = "error") => ~HasEligibleMain

\* the chosen mains that support the label of slot k
Supporting(k) == {c \in Range(chosen_mains) : card_supports_slot(c, slots[k].slot, FALSE)}

\* the mains of cands that keep the day of slot k at or below calories_max
KeepingDay(cands, k) ==
    {c \in cands : DayBefore(k) + Card(c).calories <= targets.calories_max}

\* m is chosen from cands for slot k as the selection rule says
ChosenFrom(m, cands, k) ==
    /\ m \in cands
    /\ IF targets.calories_max > 0 /\ KeepingDay(cands, k) # {}
       THEN m \in KeepingDay(cands, k)
       ELSE \A c \in cands : Card(m).calories <= Card(c).calories

\* C15 as claimed: in automatic mode the main of every non-snack slot is a
\* chosen main that supports the slot's label; it keeps the day's running total
\* at or below calories_max if some such main does, and is otherwise a
\* supporting main of minimum calories.
C15_MainSupportsLabel ==
    mode = "auto" =>
        \A k \in DOMAIN slots :
            ~SnackLabel(slots[k].slot) =>
                ChosenFrom(slots[k].card_ids[1], Supporting(k), k)

\* C15 amended: in automatic mode the main of every non-snack slot is taken
\* from the chosen mains that support the slot's label under
\* card_supports_slot, or from all chosen mains when none supports it; if
\* calories_max is set and some such candidate keeps the day's running total at
\* or below calories_max the main is such a candidate, otherwise (also when
\* calories_max is not set) it is a candidate of minimum calories.
C15_MainFromCandidates ==
    mode = "auto" =>
        \A k \in DOMAIN slots :
            ~SnackLabel(slots[k].slot) =>
                ChosenFrom(slots[k].card_ids[1],
                           IF Supporting(k) = {} THEN Range(chosen_mains) ELSE Supporting(k),
                           k)

C15_Witness ==
    /\ mode = "auto" /\ pc = "done" /\ targets.calories_max > 0
    /\ \E k \in DOMAIN slots : ~SnackLabel(slots[k].slot) /\ Supporting(k) = {}
    /\ \E k \in DOMAIN slots :
          /\ ~SnackLabel(slots[k].slot) /\ DayBefore(k) > 0
          /\ Cardinality(Supporting(k)) >= 2
          /\ KeepingDay(Supporting(k), k) # {} /\ KeepingDay(Supporting(k), k) # Supporting(k)

\* the snack-eligible cards of the repository
SnackEligible == {cards[k] : k \in {h \in DOMAIN cards : EligibleSnack(cards[h])}}

\* the planner is about to handle a scheduled snack slot
AtSnackSlot ==
    /\ mode = "auto" /\ pc = "loop" /\ i < Len(week_slots)
    /\ week_slots[i + 1].is_snack

\* the step emits one snack slot holding card c
EmitsSnack(c) ==
    /\ Len(slots') = Len(slots) + 1
    /\ SubSeq(slots', 1, Len(slots)) = slots
    /\ slots'[Len(slots')].card_ids = <<c>>
    /\ slots'[Len(slots')].day = week_slots[i + 1].day
    /\ slots'[Len(slots')].slot = week_slots[i + 1].slot
    /\ day_totals' = [day_totals EXCEPT ![week_slots[i + 1].day] = @ + Card(c).calories]

\* what the handling of a scheduled snack slot does to the plan
SnackRule ==
    LET dt == day_totals[week_slots[i + 1].day]
        under == {c \in SnackEligible : dt + Card(c).calories <= targets.calories_max}
    IN IF under # {}
       THEN \E c \in under : EmitsSnack(c)
       ELSE IF dt < targets.calories_min /\ SnackEligible # {}
            THEN \E c \in SnackEligible :
                    /\ \A o \in SnackEligible : Card(c).calories <= Card(o).calories
                    /\ EmitsSnack(c)
            ELSE slots' = slots /\ day_totals' = day_totals

\* C16: for each scheduled snack slot in automatic mode, if some snack-eligible
\* card keeps the day's running total at or below calories_max the slot is
\* filled with such a card; otherwise, if the day's running total is below
\* calories_min, it is filled with a snack-eligible card of minimum calories;
\* otherwise (also when no card is snack-eligible) no slot is emitted and the
\* day's running total is unchanged.
C16_SnackRule == [][(AtSnackSlot /\ i' = i + 1) => SnackRule]_vars

C16_Witness ==
    /\ mode = "auto" /\ pc = "done" /\ SnackEligible # {}
    /\ targets.calories_max > 0
    /\ \E k \in DOMAIN slots :
          /\ SnackLabel(slots[k].slot)
          /\ DayBefore(k) + slots[k].calories <= targets.calories_max
    /\ \E k \in DOMAIN slots :
          /\ SnackLabel(slots[k].slot)
          /\ DayBefore(k) + slots[k].calories > targets.calories_max
          /\ DayBefore(k) < targets.calories_min
    /\ Cardinality({k \in DOMAIN slots : SnackLabel(slots[k].slot)})
          < Cardinality({k \in DOMAIN week_slots : week_slots[k].is_snack})

\* the meals and the snacks scheduled per day
MealsADay == IF targets.meals_per_day > 1 THEN targets.meals_per_day ELSE 1
SnacksADay == IF targets.include_snacks THEN targets.max_snacks_per_day ELSE 0

IsMealSlot(s) == ~SnackLabel(s.slot)
IsMealEntry(ws) == ~ws.is_snack

\* a sequence of slots or schedule entries as (day, label) pairs
DayLabels(s) == [k \in DOMAIN s |-> <<s[k].day, s[k].slot>>]

\* C17: the schedule lists, for each day 0..6 in increasing order, exactly
\* max(1, meals_per_day) non-snack slots whose labels cycle through meal_slots,
\* followed by max_snacks_per_day snack slots when snacks are enabled; with
\* include_snacks false neither the schedule nor the plan holds a snack slot;
\* and the plan holds exactly one slot per scheduled non-snack slot, in
\* schedule order.
C17_WeekSchedule ==
    (mode = "auto" /\ pc \in {"loop", "planned", "done"}) =>
        /\ Len(week_slots) = 7 * (MealsADay + SnacksADay)
        /\ \A k \in DOMAIN week_slots :
              LET d == (k - 1) \div (MealsADay + SnacksADay)
                  j == (k - 1) % (MealsADay + SnacksADay)
              IN /\ week_slots[k].day = d
                 /\ IF j < MealsADay
                    THEN /\ ~week_slots[k].is_snack
                         /\ week_slots[k].slot =
                               targets.meal_slots[(j % Len(targets.meal_slots)) + 1]
                    ELSE /\ week_slots[k].is_snack
                         /\ SnackLabel(week_slots[k].slot)
        /\ ~targets.include_snacks =>
              /\ \A k \in DOMAIN week_slots : ~week_slots[k].is_snack
              /\ \A k \in DOMAIN slots : ~SnackLabel(slots[k].slot)
        /\ pc \in {"planned", "done"} =>
              DayLabels(SelectSeq(slots, IsMealSlot))
                 = DayLabels(SelectSeq(week_slots, IsMealEntry))

C17_Witness ==
    /\ mode = "auto" /\ pc = "done"
    /\ ~targets.include_snacks /\ targets.max_snacks_per_day = 2
    /\ targets.meals_per_day = 3 /\ Len(targets.meal_slots) = 2
    /\ Len(slots) = 21

\* the j-th side examined (j >= 1) from the cursor's position before the step
Examined(j) == side_pool[((side_idx + j - 1) % Len(side_pool)) + 1]

\* the sides attached to the slot the step appends are examined sides, in the
\* order of their examination
AttachedAreExamined(ids, e) ==
    \E f \in [2..Len(ids) -> 1..e] :
        /\ \A p \in 2..Len(ids) : ids[p] = Examined(f[p])
        /\ \A p, q \in 2..Len(ids) : p < q => f[p] < f[q]

\* one slot of the manual loop, seen from the cursor
CursorStep ==
    (mode = "manual" /\ pc = "loop" /\ pc' = "loop" /\ i' = i + 1) =>
        LET e == side_idx' - side_idx
            ids == slots'[Len(slots')].card_ids
        IN /\ 0 <= e /\ e <= Len(side_pool)
           /\ Len(ids) - 1 <= 2
           /\ Len(ids) - 1 <= e
           /\ e < Len(side_pool) => Len(ids) - 1 = 2
           /\ AttachedAreExamined(ids, e)

\* C18: in manual planning the side cursor starts at 0, is never reset or
\* decreased between slots and advances by one per side examined, the k-th side
\* examined being sidePool[k mod len(sidePool)]; within one slot at most
\* len(sidePool) sides are examined and at most 2 attached; the walk over the
\* 14 slots terminates.
C18_PersistentCursor ==
    /\ []((mode = "manual" /\ pc = "loop" /\ i = 0) => side_idx = 0)
    /\ [][(mode = "manual" /\ pc = "loop") => side_idx' >= side_idx]_vars
    /\ [][CursorStep]_vars
    /\ (mode = "manual" /\ pc = "loop") ~> (pc = "planned" /\ Len(slots) = 14)

C18_Witness ==
    /\ mode = "manual" /\ pc = "planned" /\ Len(side_pool) = 3
    /\ side_idx > 14 /\ side_idx % Len(side_pool) # 0
    /\ \E k \in DOMAIN slots : Len(slots[k].card_ids) = 3

----------------------------------------------------------------------------
(* C19 *)

\* the stored totals of a slot are the per-serving macros of its listed cards,
\* one serving per listing
TotalsAreSums(s) ==
    /\ s.calories = CalOf(s.card_ids)
    /\ s.protein_g = ProtOf(s.card_ids)
    /\ s.carbs_g = CarbOf(s.card_ids)
    /\ s.fat_g = FatOf(s.card_ids)

\* the calories of the slots emitted so far for day d
DayEmitted(d) ==
    SeqSum([k \in DOMAIN slots |-> IF slots[k].day = d THEN slots[k].calories ELSE 0])

AutoRunning == mode = "auto" /\ pc \in {"loop", "planned", "done"}

\* C19: in every slot of a manual or automatic plan calories, protein_g,
\* carbs_g and fat_g each equal the sum of the per-serving macro of the cards
\* listed in card_ids, unscaled; in automatic mode a day's running total
\* equals the sum of the calories of that day's emitted slots.
C19_TotalsAreSums ==
    /\ Planning => \A k \in DOMAIN slots : TotalsAreSums(slots[k])
    /\ AutoRunning => \A d \in 0..(WeekDays - 1) : day_totals[d] = DayEmitted(d)

C19_Witness ==
    /\ mode = "auto" /\ pc = "done"
    /\ \E k \in DOMAIN slots : Len(slots[k].card_ids) = 3
    /\ \E k \in DOMAIN slots : SnackLabel(slots[k].slot)
    /\ \E d \in 0..(WeekDays - 1) :
          /\ Cardinality({k \in DOMAIN slots : slots[k].day = d}) >= 3
          /\ day_totals[d] > 0

----------------------------------------------------------------------------
(* C20 *)

NoCardTwice(ids) == \A a, b \in DOMAIN ids : a # b => ids[a] # ids[b]

\* C20: no slot of a manual or automatic plan lists the same card id twice
\* (the attached sides are pairwise distinct and none of them is the slot's
\* main), also with a card of role both in both pools or a side pool holding
\* a card more than once.
C20_NoCardTwice ==
    Planning => \A k \in DOMAIN slots : NoCardTwice(slots[k].card_ids)

====
